---- MODULE Spec2Model ----
(***************************************************************************)
(* New Year Wave (App component): the clock state, the one-second timer,   *)
(* the values derived from the clock on every render, and the state and    *)
(* handlers of the map-data fetch, the geolocation request and the         *)
(* country tooltip.                                                        *)
(*                                                                         *)
(* Representation.  An instant is the record of its UTC calendar fields,   *)
(* as luxon exposes them.  A longitude is an integer number of             *)
(* 1/UnitsPerDegree degrees; one unit is the angle the midnight line       *)
(* sweeps in one second, so every longitude the clock can produce is an    *)
(* integer.  Coverage is an integer number of 1/CovUnitsPerPercent         *)
(* percent.  The arithmetic is exact; the rounding of IEEE doubles is not  *)
(* modelled.                                                               *)
(***************************************************************************)
EXTENDS Integers, FiniteSets, Sequences, TLC

VARIABLES
  currentTime,      \* useState(DateTime.utc())
  ticksLeft,        \* timer ticks still observed by the model
  geoData,          \* "null" or "countries"
  loading,
  error,            \* "null" or the message of the caught error
  fetchState,       \* position of loadGeoData: "pending" or "done"
  userLocation,     \* [present, longitude]
  locationLoading,
  locationError,    \* "null" or a message
  locationPending,  \* a getCurrentPosition callback is outstanding
  hoveredCountry,   \* [present, name, longitude, solarMidnightTime, inNewYear]
  boundHovered      \* the hoveredCountry captured by the bound map handlers

clockVars == <<currentTime, ticksLeft>>

fetchVars == <<geoData, loading, error, fetchState>>

locationVars == <<userLocation, locationLoading, locationError, locationPending>>

tooltipVars == <<hoveredCountry, boundHovered>>

vars == <<clockVars, fetchVars, locationVars, tooltipVars>>

---------------------------------------------------------------------------
(* Bounds of the model. *)

\* Ticks observed after a sampled start instant.
MaxTicks == 2

\* Ticks observed in the run that follows the clock through the whole wave.
WaveTicks == 86420

\* Seconds before Dec 31 12:00:00 at which that run starts.
WaveLead == 10

\* Ticks observed in the runs that exercise the fetch, the geolocation and
\* the tooltip handlers.
UITicks == 2

SampleYears == {2024, 2025}
WaveYears == {2024}
SampleDays == {1, 2, 15, 28, 29, 30, 31}
SampleHours == {0, 2, 6, 11, 12, 14, 15, 18, 23}
SampleMinutes == {0, 59}
SampleSeconds == {0, 59}
SampleMillis == {0, 500}

\* Queried longitudes, in degrees.
LonDegrees ==
  {-180, -170, -150, -135, -90, -46, -45, -44, -31, -30, -29, 0,
   45, 90, 134, 135, 136, 150, 170, 180}

---------------------------------------------------------------------------
(* Units. *)

\* 15 degrees per hour: 3600 / 15 seconds of time per degree.
UnitsPerDegree == 3600 \div 15

Deg(d) == d * UnitsPerDegree

Lons == {Deg(d) : d \in LonDegrees}

\* Coverage units per percent: one unit per second of a 24 hour window.
CovUnitsPerPercent == (24 * 3600) \div 100

Pct(p) == p * CovUnitsPerPercent

---------------------------------------------------------------------------
(* The UTC calendar (luxon DateTime). *)

IsLeap(y) == (y % 4 = 0 /\ y % 100 # 0) \/ y % 400 = 0

DaysInMonth(y, m) ==
  IF m = 2 THEN (IF IsLeap(y) THEN 29 ELSE 28)
  ELSE IF m \in {4, 6, 9, 11} THEN 30 ELSE 31

RECURSIVE DaysBeforeMonth(_, _)
DaysBeforeMonth(y, m) ==
  IF m = 1 THEN 0 ELSE DaysBeforeMonth(y, m - 1) + DaysInMonth(y, m - 1)

LeapsThrough(y) == (y \div 4) - (y \div 100) + (y \div 400)

\* Days from 1970-01-01 to y-01-01.
DaysBeforeYear(y) == (y - 1970) * 365 + LeapsThrough(y - 1) - LeapsThrough(1969)

\* DateTime.utc(y, mo, d, h, mi, s)
Utc(y, mo, d, h, mi, s) ==
  [year |-> y, month |-> mo, day |-> d, hour |-> h, minute |-> mi,
   second |-> s, millisecond |-> 0]

\* dt.toSeconds(), rounded down: whole seconds since the Unix epoch.
ToSecs(dt) ==
  (DaysBeforeYear(dt.year) + DaysBeforeMonth(dt.year, dt.month) + (dt.day - 1)) * 86400
    + dt.hour * 3600 + dt.minute * 60 + dt.second

\* dt.plus({ seconds: 1 }): the calendar fields one second later.
PlusOneSecond(dt) ==
  IF dt.second < 59 THEN [dt EXCEPT !.second = dt.second + 1]
  ELSE IF dt.minute < 59 THEN [dt EXCEPT !.second = 0, !.minute = dt.minute + 1]
  ELSE IF dt.hour < 23 THEN [dt EXCEPT !.second = 0, !.minute = 0, !.hour = dt.hour + 1]
  ELSE IF dt.day < DaysInMonth(dt.year, dt.month)
    THEN [dt EXCEPT !.second = 0, !.minute = 0, !.hour = 0, !.day = dt.day + 1]
  ELSE IF dt.month < 12
    THEN [dt EXCEPT !.second = 0, !.minute = 0, !.hour = 0, !.day = 1,
                    !.month = dt.month + 1]
  ELSE [dt EXCEPT !.second = 0, !.minute = 0, !.hour = 0, !.day = 1, !.month = 1,
                  !.year = dt.year + 1]

---------------------------------------------------------------------------
(* Initial states: DateTime.utc() at construction. *)

SampleInstants ==
  { [year |-> y, month |-> mo, day |-> d, hour |-> h, minute |-> mi,
     second |-> s, millisecond |-> ms] :
      y \in SampleYears, mo \in 1..12,
      d \in SampleDays,
      h \in SampleHours, mi \in SampleMinutes, s \in SampleSeconds,
      ms \in SampleMillis }

ValidInstant(dt) == dt.day <= DaysInMonth(dt.year, dt.month)

WaveStartInstants == { Utc(y, 12, 31, 11, 59, 60 - WaveLead) : y \in WaveYears }

\* useState(null) for userLocation
NoLocation == [present |-> FALSE, longitude |-> 0]

\* useState(null) for hoveredCountry
NoCountry ==
  [present |-> FALSE, name |-> "", longitude |-> 0, solarMidnightTime |-> 0,
   inNewYear |-> FALSE]

\* The useState initial values other than the clock, with loadGeoData
\* started by the mount effect.
Constructed ==
  /\ geoData = "null"
  /\ loading = TRUE
  /\ error = "null"
  /\ fetchState = "pending"
  /\ userLocation = NoLocation
  /\ locationLoading = FALSE
  /\ locationError = "null"
  /\ locationPending = FALSE
  /\ hoveredCountry = NoCountry
  /\ boundHovered = NoCountry

Init ==
  /\ \/ /\ currentTime \in {dt \in SampleInstants : ValidInstant(dt)}
        /\ ticksLeft = MaxTicks
     \/ /\ currentTime \in WaveStartInstants
        /\ ticksLeft = WaveTicks
  /\ Constructed

\* The render effect (its body returns early without geoData and the svg,
\* which is mounted only on the main screen) binds the map handlers, which
\* close over the hoveredCountry of the render that ran it.
EffectRuns == geoData # "null" /\ ~loading /\ error = "null"

\* setInterval(() => setCurrentTime(DateTime.utc()), 1000); currentTime is a
\* dependency of the render effect.
Tick ==
  /\ ticksLeft > 0
  /\ currentTime' = PlusOneSecond(currentTime)
  /\ ticksLeft' = ticksLeft - 1
  /\ boundHovered' = IF EffectRuns THEN hoveredCountry ELSE boundHovered
  /\ UNCHANGED <<fetchVars, locationVars, hoveredCountry>>

\* The clock alone: the derived values read nothing but currentTime, and no
\* handler other than the timer writes it.
Next == Tick

Spec == Init /\ [][Next]_vars

---------------------------------------------------------------------------
(* Derived values (the useMemo blocks), as functions of the state. *)

\* hour*3600 + minute*60 + second: the UTC time of day, in seconds.
SecondOfDay(dt) == dt.hour * 3600 + dt.minute * 60 + dt.second

\* while (lon < -180) lon += 360; while (lon > 180) lon -= 360;
RECURSIVE NormalizeLoop(_)
NormalizeLoop(lon) ==
  IF lon < Deg(-180) THEN NormalizeLoop(lon + Deg(360))
  ELSE IF lon > Deg(180) THEN NormalizeLoop(lon - Deg(360))
  ELSE lon

\* Mutant: the normalisation loops are left out.
solarMidnightLon_NoNormalize ==
  -((SecondOfDay(currentTime) * 15 * UnitsPerDegree) \div 3600)

\* Mutant: the sign of the sweep is lost (lon = totalHours * 15).
solarMidnightLon_Eastward ==
  NormalizeLoop((SecondOfDay(currentTime) * 15 * UnitsPerDegree) \div 3600)

\* totalHours = hour + minute/60 + second/3600; lon = -totalHours * 15, normalised
solarMidnightLon ==
  NormalizeLoop(-((SecondOfDay(currentTime) * 15 * UnitsPerDegree) \div 3600))

displayYear ==
  IF currentTime.month = 12 THEN currentTime.year + 1 ELSE currentTime.year

previousYear ==
  IF currentTime.month = 12 THEN currentTime.year ELSE currentTime.year - 1

\* hour = currentTime.hour + currentTime.minute / 60, compared with 12
HourAtLeast12 == currentTime.hour * 60 + currentTime.minute >= 12 * 60

isDec31 == currentTime.month = 12 /\ currentTime.day = 31

isJan1 == currentTime.month = 1 /\ currentTime.day = 1

\* Mutant: the window opens strictly after 12:00 of Dec 31.
inTransition_LateStart ==
  \/ isDec31 /\ currentTime.hour * 60 + currentTime.minute > 12 * 60
  \/ isJan1 /\ ~HourAtLeast12

inTransition == (isDec31 /\ HourAtLeast12) \/ (isJan1 /\ ~HourAtLeast12)

\* Mutant: the days of January after the first are left out.
transitionComplete_NoRestOfJanuary ==
  \/ isJan1 /\ HourAtLeast12
  \/ currentTime.month > 1 /\ currentTime.month < 12

transitionComplete ==
  \/ isJan1 /\ HourAtLeast12
  \/ currentTime.month = 1 /\ currentTime.day > 1
  \/ currentTime.month > 1 /\ currentTime.month < 12

\* Mutant: the days of December before the 31st are left out.
beforeTransition_OnlyDec31 == isDec31 /\ ~HourAtLeast12

beforeTransition ==
  \/ isDec31 /\ ~HourAtLeast12
  \/ currentTime.month = 12 /\ currentTime.day < 31

\* return null
NoCountdown ==
  [present |-> FALSE, days |-> 0, hours |-> 0, minutes |-> 0, seconds |-> 0,
   total |-> [seconds |-> 0, millis |-> 0]]

\* waveStart.diff(currentTime, ['days', 'hours', 'minutes', 'seconds']), null
\* when diff.toMillis() <= 0, else Math.floor of each unit.  The last unit
\* of the diff carries the fraction of a second, which Math.floor drops;
\* total (diff.toMillis()) is kept as whole seconds plus milliseconds.
CountdownTo(waveStart) ==
  LET borrow == IF currentTime.millisecond > 0 THEN 1 ELSE 0
      secs == ToSecs(waveStart) - ToSecs(currentTime) - borrow
      millis == (1000 - currentTime.millisecond) % 1000
  IN IF secs < 0 \/ (secs = 0 /\ millis = 0) THEN NoCountdown
     ELSE [present |-> TRUE,
           days |-> secs \div 86400,
           hours |-> (secs % 86400) \div 3600,
           minutes |-> (secs % 3600) \div 60,
           seconds |-> secs % 60,
           total |-> [seconds |-> secs, millis |-> millis]]

\* Mutant: the wave start is taken at the start of Dec 31 instead of 12:00.
countdown_Midnight ==
  IF ~beforeTransition THEN NoCountdown
  ELSE CountdownTo(Utc(currentTime.year, 12, 31, 0, 0, 0))

countdown ==
  IF ~beforeTransition THEN NoCountdown
  ELSE CountdownTo(Utc(currentTime.year, 12, 31, 12, 0, 0))

\* lon > 180 ? lon - 360 : (lon < -180 ? lon + 360 : lon)
NormLon(lon) ==
  IF lon > Deg(180) THEN lon - Deg(360)
  ELSE IF lon < Deg(-180) THEN lon + Deg(360)
  ELSE lon

\* Mutant: the Before guard is left out.
isNewYear_NoBeforeGuard(lon) ==
  IF transitionComplete THEN TRUE
  ELSE LET normLon == NormLon(lon)
           normMidnight == solarMidnightLon
       IN IF normMidnight <= 0 THEN normLon > normMidnight
          ELSE \/ normLon > normMidnight
               \/ normLon < Deg(-180) + (Deg(180) - normMidnight)

\* Mutant: the comparison with the midnight line is not strict.
isNewYear_NotStrict(lon) ==
  IF ~inTransition /\ ~transitionComplete THEN FALSE
  ELSE IF transitionComplete THEN TRUE
  ELSE LET normLon == NormLon(lon)
           normMidnight == solarMidnightLon
       IN IF normMidnight <= 0 THEN normLon >= normMidnight
          ELSE \/ normLon >= normMidnight
               \/ normLon < Deg(-180) + (Deg(180) - normMidnight)

isNewYear(lon) ==
  IF ~inTransition /\ ~transitionComplete THEN FALSE
  ELSE IF transitionComplete THEN TRUE
  ELSE LET normLon == NormLon(lon)
           normMidnight == solarMidnightLon
       IN IF normMidnight <= 0 THEN normLon > normMidnight
          ELSE \/ normLon > normMidnight
               \/ normLon < Deg(-180) + (Deg(180) - normMidnight)

\* Coverage units per second of the time of day: (x / 24) * 100 percent for x
\* in hours.
CovPerSecond == (100 * CovUnitsPerPercent) \div (24 * 3600)

\* Mutant: the Jan 1 half does not add the 12 hours of Dec 31.
coverage_NoOffset ==
  IF beforeTransition THEN 0
  ELSE IF transitionComplete THEN Pct(100)
  ELSE IF currentTime.month = 12 /\ currentTime.day = 31
    THEN (SecondOfDay(currentTime) - 12 * 3600) * CovPerSecond
  ELSE IF currentTime.month = 1 /\ currentTime.day = 1
    THEN SecondOfDay(currentTime) * CovPerSecond
  ELSE 0

\* hour = hour + minute/60 + second/3600; ((hour -/+ 12) / 24) * 100
coverage ==
  IF beforeTransition THEN 0
  ELSE IF transitionComplete THEN Pct(100)
  ELSE IF currentTime.month = 12 /\ currentTime.day = 31
    THEN (SecondOfDay(currentTime) - 12 * 3600) * CovPerSecond
  ELSE IF currentTime.month = 1 /\ currentTime.day = 1
    THEN (SecondOfDay(currentTime) + 12 * 3600) * CovPerSecond
  ELSE 0

\* Status text (the labels without their dash and emoji glyphs).
status ==
  IF transitionComplete THEN "Complete - Happy New Year!"
  ELSE IF inTransition THEN
    IF solarMidnightLon > Deg(120) THEN "Wave Beginning - Pacific Islands"
    ELSE IF solarMidnightLon > Deg(60) THEN "Crossing East Asia & Australia"
    ELSE IF solarMidnightLon > Deg(0) THEN "Crossing South Asia & Middle East"
    ELSE IF solarMidnightLon > Deg(-30) THEN "Crossing Europe & Africa"
    ELSE IF solarMidnightLon > Deg(-90) THEN "Crossing the Atlantic"
    ELSE IF solarMidnightLon > Deg(-150) THEN "Crossing the Americas"
    ELSE "Final Stretch - Pacific"
  ELSE IF beforeTransition THEN
    IF countdown.present /\ countdown.days = 0 /\ countdown.hours < 1
      THEN "Almost There..."
    ELSE IF countdown.present /\ countdown.days = 0 THEN "Wave Starting Soon"
    ELSE "Awaiting Wave Start"
  ELSE "Awaiting New Year"

\* waveStart.plus({ hours: (180 - lon) / 15 }).toSeconds(), with
\* waveStart = DateTime.utc(currentTime.year, 12, 31, 12, 0, 0)
getSolarMidnightTime(lon) ==
  ToSecs(Utc(currentTime.year, 12, 31, 12, 0, 0))
    + ((Deg(180) - lon) * 3600) \div (15 * UnitsPerDegree)

---------------------------------------------------------------------------
(* The map-data fetch, the geolocation request and the country tooltip. *)

\* Messages of the errors loadGeoData can catch: the non-OK response, a
\* rejected fetch, an unparsable body.
FetchErrors ==
  {"Failed to fetch map data", "Failed to fetch", "Unexpected token in JSON"}

\* Countries of the map, with the longitude of d3.geoCentroid, in degrees.
Countries == {"Fiji", "Brazil"}

Centroid(c) == IF c = "Fiji" THEN Deg(178) ELSE Deg(-53)

\* What the component returns: the loading screen, the error screen with the
\* Try Again button, or the main screen.
Screen ==
  IF loading THEN "loading"
  ELSE IF error # "null" THEN "error"
  ELSE "main"

\* loadGeoData, the try block to its end; geoData is a dependency of the
\* render effect, which binds the handlers of the freshly mounted svg.
FetchSuccess ==
  /\ fetchState = "pending"
  /\ geoData' = "countries"
  /\ loading' = FALSE
  /\ fetchState' = "done"
  /\ boundHovered' = hoveredCountry
  /\ UNCHANGED <<clockVars, error, locationVars, hoveredCountry>>

\* Mutant: the catch block does not clear loading.
FetchFailure_KeepsLoading(msg) ==
  /\ fetchState = "pending"
  /\ error' = msg
  /\ fetchState' = "done"
  /\ UNCHANGED <<clockVars, geoData, loading, locationVars, tooltipVars>>

\* loadGeoData, the catch block.
FetchFailure(msg) ==
  /\ fetchState = "pending"
  /\ error' = msg
  /\ loading' = FALSE
  /\ fetchState' = "done"
  /\ UNCHANGED <<clockVars, geoData, locationVars, tooltipVars>>

\* handleRetry: setError(null); setLoading(true); window.location.reload().
\* The reload constructs the component again, which starts loadGeoData.
Retry ==
  /\ Screen = "error"
  /\ error' = "null"
  /\ loading' = TRUE
  /\ geoData' = "null"
  /\ fetchState' = "pending"
  /\ userLocation' = NoLocation
  /\ locationLoading' = FALSE
  /\ locationError' = "null"
  /\ locationPending' = FALSE
  /\ hoveredCountry' = NoCountry
  /\ boundHovered' = NoCountry
  /\ UNCHANGED clockVars

\* The Find My Location button is rendered and not disabled.
LocationButtonEnabled ==
  Screen = "main" /\ ~userLocation.present /\ ~locationLoading

\* requestLocation without navigator.geolocation.
RequestLocationUnsupported ==
  /\ LocationButtonEnabled
  /\ locationError' = "Geolocation is not supported by your browser"
  /\ UNCHANGED <<clockVars, fetchVars, userLocation, locationLoading,
                 locationPending, tooltipVars>>

\* requestLocation with navigator.geolocation: getCurrentPosition is called.
RequestLocation ==
  /\ LocationButtonEnabled
  /\ locationLoading' = TRUE
  /\ locationError' = "null"
  /\ locationPending' = TRUE
  /\ UNCHANGED <<clockVars, fetchVars, userLocation, tooltipVars>>

\* The success callback; userLocation is a dependency of the render effect.
LocationSuccess(lon) ==
  /\ locationPending
  /\ userLocation' = [present |-> TRUE, longitude |-> lon]
  /\ locationLoading' = FALSE
  /\ locationPending' = FALSE
  /\ boundHovered' = IF EffectRuns THEN hoveredCountry ELSE boundHovered
  /\ UNCHANGED <<clockVars, fetchVars, locationError, hoveredCountry>>

\* Mutant: the error callback does not clear locationLoading.
LocationFailure_KeepsLoading ==
  /\ locationPending
  /\ locationError' = "Unable to get your location"
  /\ locationPending' = FALSE
  /\ UNCHANGED <<clockVars, fetchVars, userLocation, locationLoading, tooltipVars>>

\* The error callback (denial, unavailable position, or the 10 s timeout).
LocationFailure ==
  /\ locationPending
  /\ locationError' = "Unable to get your location"
  /\ locationLoading' = FALSE
  /\ locationPending' = FALSE
  /\ UNCHANGED <<clockVars, fetchVars, userLocation, tooltipVars>>

\* The object the map handlers pass to setHoveredCountry.  getSolarMidnightTime
\* and isNewYear are dependencies of the render effect, so the handlers hold
\* the ones of the current render.
CountryInfo(c) ==
  [present |-> TRUE, name |-> c, longitude |-> Centroid(c),
   solarMidnightTime |-> getSolarMidnightTime(Centroid(c)),
   inNewYear |-> isNewYear(Centroid(c))]

\* The map is drawn and its handlers are bound.
MapBound == EffectRuns

\* mouseenter on a device that matches (hover: hover); on other devices the
\* handler changes no state.
MouseEnter(c) ==
  /\ MapBound
  /\ hoveredCountry' = CountryInfo(c)
  /\ UNCHANGED <<clockVars, fetchVars, locationVars, boundHovered>>

\* mouseleave on a device that matches (hover: hover).
MouseLeave ==
  /\ MapBound
  /\ hoveredCountry' = NoCountry
  /\ UNCHANGED <<clockVars, fetchVars, locationVars, boundHovered>>

\* The click handler of a country: it compares the clicked name with the
\* hoveredCountry of the render in which the effect bound it (hoveredCountry
\* is not a dependency of the effect).
Click(c) ==
  /\ MapBound
  /\ hoveredCountry' =
       IF boundHovered.present /\ boundHovered.name = c
         THEN NoCountry
         ELSE CountryInfo(c)
  /\ UNCHANGED <<clockVars, fetchVars, locationVars, boundHovered>>

\* onClick of the svg on its background, and the close button of the mobile
\* tooltip: setHoveredCountry(null).
DismissTooltip ==
  /\ Screen = "main"
  /\ hoveredCountry.present
  /\ hoveredCountry' = NoCountry
  /\ UNCHANGED <<clockVars, fetchVars, locationVars, boundHovered>>

\* Longitudes the geolocation can report, in degrees.
LocationDegrees == {-74, 139}

UIStartInstants == {Utc(2024, 12, 31, 11, 59, 59), Utc(2025, 1, 1, 11, 59, 59)}

InitUI ==
  /\ currentTime \in UIStartInstants
  /\ ticksLeft = UITicks
  /\ Constructed

NextUI ==
  \/ Tick
  \/ FetchSuccess
  \/ \E msg \in FetchErrors : FetchFailure(msg)
  \/ Retry
  \/ RequestLocationUnsupported
  \/ RequestLocation
  \/ \E d \in LocationDegrees : LocationSuccess(Deg(d))
  \/ LocationFailure
  \/ \E c \in Countries : MouseEnter(c)
  \/ MouseLeave
  \/ \E c \in Countries : Click(c)
  \/ DismissTooltip

SpecUI == InitUI /\ [][NextUI]_vars

\* getCurrentPosition is called with timeout: 10000, so one of its callbacks
\* is eventually invoked.
FairSpecUI ==
  SpecUI /\ WF_vars(LocationFailure \/ \E d \in LocationDegrees : LocationSuccess(Deg(d)))

---------------------------------------------------------------------------
(* Properties. *)

\* The clock reads mo/d h:mi:s (any year, any millisecond).
AtClock(mo, d, h, mi, s) ==
  /\ currentTime.month = mo /\ currentTime.day = d
  /\ currentTime.hour = h /\ currentTime.minute = mi /\ currentTime.second = s

\* Dec 31 12:00:00 UTC of year y, in epoch seconds.
WindowStart(y) == ToSecs(Utc(y, 12, 31, 12, 0, 0))

\* The year whose Dec 31 opens the window nearest to the clock: the window
\* that a clock in January belongs to opened in the year before.
WindowYear == IF currentTime.month = 1 THEN currentTime.year - 1 ELSE currentTime.year

\* Seconds from the opening of that window to the clock.
Elapsed == ToSecs(currentTime) - WindowStart(WindowYear)

\* (180 - lon) / 15 hours, in seconds.
HoursAfterWaveStart(lon) == ((Deg(180) - lon) * 3600) \div (15 * UnitsPerDegree)

\* C1: while the phase is During, isNewYear(lon) is true exactly when
\* normalize(lon) > midnightLon, whichever hemisphere the midnight line is in.
C1_MembershipIsOneComparison ==
  inTransition =>
    \A lon \in Lons : isNewYear(lon) <=> (NormLon(lon) > solarMidnightLon)

\* C2: from Dec 31 through Jan 1, as the clock advances, no longitude that is
\* in the new year leaves it again, and no longitude is in it before the
\* window opens.
C2_WaveCrossesOnce ==
  /\ [](beforeTransition => \A lon \in Lons : ~isNewYear(lon))
  /\ [][(isDec31 \/ isJan1) =>
          \A lon \in Lons : isNewYear(lon) => isNewYear(lon)']_vars

\* C3 as stated: at 2024-12-31T15:00:00Z the midnight line is at -45, the
\* phase is During, coverage is 12.5, isNewYear(-44) and not isNewYear(-46).
C3_EndToEnd_Original ==
  (currentTime.year = 2024 /\ AtClock(12, 31, 15, 0, 0)) =>
    /\ solarMidnightLon = Deg(-45)
    /\ inTransition
    /\ 2 * coverage = Pct(25)
    /\ isNewYear(Deg(-44))
    /\ ~isNewYear(Deg(-46))

\* C3 amended: at 2024-12-31T15:00:00Z the midnight line is at 135, the
\* phase is During, coverage is 12.5, isNewYear(136) holds, and none of
\* isNewYear(134), isNewYear(-44), isNewYear(-46) holds.
C3_EndToEnd ==
  (currentTime.year = 2024 /\ AtClock(12, 31, 15, 0, 0)) =>
    /\ solarMidnightLon = Deg(135)
    /\ inTransition /\ ~beforeTransition /\ ~transitionComplete
    /\ 2 * coverage = Pct(25)
    /\ isNewYear(Deg(136))
    /\ ~isNewYear(Deg(134))
    /\ ~isNewYear(Deg(-44))
    /\ ~isNewYear(Deg(-46))

C3_Witness ==
  /\ currentTime.year = 2024 /\ AtClock(12, 31, 15, 0, 0)
  /\ solarMidnightLon = Deg(135)
  /\ isNewYear(Deg(136))

\* C4: at every instant and for every longitude the predicted solar midnight
\* is Dec 31 12:00:00 of the year before the display year plus
\* (180 - lon) / 15 hours: 180 gives Dec 31 12:00:00, 0 gives Jan 1 00:00:00
\* and -180 gives Jan 1 12:00:00 of the display year.
C4_PredictedInstantOfDisplayYear ==
  /\ \A lon \in Lons :
       getSolarMidnightTime(lon) = WindowStart(displayYear - 1) + HoursAfterWaveStart(lon)
  /\ getSolarMidnightTime(Deg(180)) = ToSecs(Utc(displayYear - 1, 12, 31, 12, 0, 0))
  /\ getSolarMidnightTime(Deg(0)) = ToSecs(Utc(displayYear, 1, 1, 0, 0, 0))
  /\ getSolarMidnightTime(Deg(-180)) = ToSecs(Utc(displayYear, 1, 1, 12, 0, 0))

\* C5: isNewYear is false for every longitude while the phase is Before and
\* true for every longitude while it is Complete, wherever the midnight line is.
C5_BeforeFalseCompleteTrue ==
  /\ beforeTransition => \A lon \in Lons : ~isNewYear(lon)
  /\ transitionComplete => \A lon \in Lons : isNewYear(lon)

C5_Witness ==
  /\ beforeTransition
  /\ solarMidnightLon = Deg(-30)
  /\ ~isNewYear(Deg(0))

\* C6: while the phase is During the longitude of the midnight line itself is
\* not in the new year; with the line at -30, -29 is in it and -30 and -31
\* are not.
C6_LineItselfNotInNewYear ==
  inTransition =>
    /\ ~isNewYear(solarMidnightLon)
    /\ solarMidnightLon = Deg(-30) =>
         isNewYear(Deg(-29)) /\ ~isNewYear(Deg(-30)) /\ ~isNewYear(Deg(-31))

C6_Witness ==
  /\ inTransition
  /\ solarMidnightLon = Deg(-30)
  /\ isNewYear(Deg(-29))
  /\ ~isNewYear(Deg(-30))

\* C7: Dec 31 11:59:59 is Before with coverage 0, Dec 31 12:00:00 is During
\* with coverage 0, Jan 1 00:00:00 is During with coverage 50, Jan 1 12:00:00
\* is Complete with coverage 100, Jun 15 is Complete with coverage 100, and
\* During holds exactly on [Dec 31 12:00:00, Jan 1 12:00:00).
C7_PhaseAndCoverageTable ==
  /\ AtClock(12, 31, 11, 59, 59) =>
       beforeTransition /\ ~inTransition /\ ~transitionComplete /\ coverage = 0
  /\ AtClock(12, 31, 12, 0, 0) =>
       inTransition /\ ~beforeTransition /\ ~transitionComplete /\ coverage = 0
  /\ AtClock(1, 1, 0, 0, 0) =>
       inTransition /\ ~beforeTransition /\ ~transitionComplete /\ coverage = Pct(50)
  /\ AtClock(1, 1, 12, 0, 0) =>
       transitionComplete /\ ~inTransition /\ ~beforeTransition /\ coverage = Pct(100)
  /\ (currentTime.month = 6 /\ currentTime.day = 15) =>
       transitionComplete /\ ~inTransition /\ ~beforeTransition /\ coverage = Pct(100)
  /\ inTransition <=> (0 <= Elapsed /\ Elapsed < 24 * 3600)

C7_Witness ==
  /\ AtClock(1, 1, 0, 0, 0)
  /\ inTransition
  /\ coverage = Pct(50)

\* C8: coverage lies in [0, 100], is 0 while Before, 100 while Complete and
\* (whole seconds elapsed since Dec 31 12:00:00 / 86400) * 100 while During,
\* and it does not decrease as the clock advances through Dec 31 and Jan 1.
C8_CoverageLinear ==
  /\ [](/\ 0 <= coverage /\ coverage <= Pct(100)
        /\ beforeTransition => coverage = 0
        /\ transitionComplete => coverage = Pct(100)
        /\ inTransition => coverage * CovUnitsPerPercent = Elapsed * Pct(1))
  /\ [][(isDec31 \/ isJan1) => coverage' >= coverage]_vars

C8_Witness ==
  /\ inTransition
  /\ AtClock(1, 1, 6, 0, 0)
  /\ coverage = Pct(75)

\* Seconds from the clock's second to Dec 31 12:00:00 of the clock's own year.
SecondsToWaveStart == WindowStart(currentTime.year) - ToSecs(currentTime)

CountdownSum ==
  countdown.days * 86400 + countdown.hours * 3600
    + countdown.minutes * 60 + countdown.seconds

CountdownShape ==
  /\ countdown.present <=> beforeTransition
  /\ countdown.present =>
       /\ countdown.days >= 0
       /\ countdown.hours \in 0..23
       /\ countdown.minutes \in 0..59
       /\ countdown.seconds \in 0..59
       /\ countdown.total.millis \in 0..999
       /\ countdown.total.seconds > 0 \/ countdown.total.millis > 0
       /\ countdown.total.seconds
            = SecondsToWaveStart - (IF currentTime.millisecond > 0 THEN 1 ELSE 0)
       /\ (countdown.total.millis + currentTime.millisecond) % 1000 = 0
  /\ (AtClock(12, 30, 12, 0, 0) /\ currentTime.millisecond = 0) =>
       /\ countdown.days = 1 /\ countdown.hours = 0
       /\ countdown.minutes = 0 /\ countdown.seconds = 0

\* C9 as stated: a countdown is present exactly while Before; it is the
\* positive duration to Dec 31 12:00:00 of the clock's own year, and its days,
\* hours, minutes and seconds sum to that duration; at Dec 30 12:00:00 it is
\* 1 day, 0 hours, 0 minutes, 0 seconds.
C9_Countdown_Original ==
  /\ CountdownShape
  /\ countdown.present =>
       /\ CountdownSum = countdown.total.seconds
       /\ countdown.total.millis = 0

\* C9 amended: as stated, except that the days, hours, minutes and seconds
\* sum to the duration rounded down to a whole second.
C9_Countdown ==
  /\ CountdownShape
  /\ countdown.present => CountdownSum = countdown.total.seconds

C9_Witness ==
  /\ beforeTransition
  /\ AtClock(12, 30, 12, 0, 0)
  /\ currentTime.millisecond > 0
  /\ countdown.present
  /\ countdown.days = 0 /\ countdown.hours = 23
  /\ countdown.minutes = 59 /\ countdown.seconds = 59

\* The clock is at or after Jan 1 12:00:00 and before the first instant of
\* month mo, day d of the same year.
FromWindowEndUntil(mo, d) ==
  /\ ToSecs(Utc(currentTime.year, 1, 1, 12, 0, 0)) <= ToSecs(currentTime)
  /\ ToSecs(currentTime) < ToSecs(Utc(currentTime.year, mo, d, 0, 0, 0))

CompleteEverywhere ==
  /\ transitionComplete /\ ~inTransition /\ ~beforeTransition
  /\ coverage = Pct(100)
  /\ \A lon \in Lons : isNewYear(lon)

\* C10 as stated: every instant from Jan 1 12:00:00 through the end of the
\* following Dec 30 is Complete, with coverage 100 and every longitude in the
\* new year.
C10_CompleteThroughDec30_Original ==
  FromWindowEndUntil(12, 31) => CompleteEverywhere

\* C10 amended: every instant from Jan 1 12:00:00 through the end of the
\* following Nov 30 is Complete, with coverage 100 and every longitude in the
\* new year.
C10_CompleteThroughNov30 ==
  FromWindowEndUntil(12, 1) => CompleteEverywhere

C10_Witness ==
  /\ AtClock(11, 30, 23, 59, 59)
  /\ CompleteEverywhere

\* Inputs of the normalisations, in degrees.
NormInputDegrees ==
  {-900, -540, -190, -180, -170, 0, 170, 180, 190, 540, 900}

NormInputs == {Deg(d) : d \in NormInputDegrees} \cup {-SecondOfDay(currentTime)}

InRange(lon) == Deg(-180) <= lon /\ lon <= Deg(180)

Congruent(a, b) == (a - b) % Deg(360) = 0

\* C11: at every UTC time of day the solar-midnight longitude lies in
\* [-180, 180] and differs from -15 * (hour + minute/60 + second/3600) by a
\* multiple of 360; it is 0 at 00:00:00, -90 at 06:00:00, 180 or -180 at
\* 12:00:00 and 90 at 18:00:00.
C11_SolarMidnightLongitude ==
  /\ InRange(solarMidnightLon)
  /\ (solarMidnightLon * 3600 + SecondOfDay(currentTime) * 15 * UnitsPerDegree)
       % (Deg(360) * 3600) = 0
  /\ SecondOfDay(currentTime) = 0 => solarMidnightLon = 0
  /\ SecondOfDay(currentTime) = 6 * 3600 => solarMidnightLon = Deg(-90)
  /\ SecondOfDay(currentTime) = 12 * 3600 => solarMidnightLon \in {Deg(180), Deg(-180)}
  /\ SecondOfDay(currentTime) = 18 * 3600 => solarMidnightLon = Deg(90)

C11_Witness ==
  /\ currentTime.hour = 18 /\ currentTime.minute = 0 /\ currentTime.second = 0
  /\ solarMidnightLon = Deg(90)

\* C12: both normalisations, the loop of the solar-midnight longitude and
\* the one applied to the queried longitude inside isNewYear, return for
\* every input a value in [-180, 180] congruent to it modulo 360;
\* 190 gives -170, -190 gives 170, 540 gives 180 or -180, 0 gives 0.
C12_NormalizeInRange ==
  /\ \A x \in NormInputs :
       /\ InRange(NormalizeLoop(x)) /\ Congruent(NormalizeLoop(x), x)
       /\ InRange(NormLon(x)) /\ Congruent(NormLon(x), x)
  /\ NormalizeLoop(Deg(190)) = Deg(-170) /\ NormLon(Deg(190)) = Deg(-170)
  /\ NormalizeLoop(Deg(-190)) = Deg(170) /\ NormLon(Deg(-190)) = Deg(170)
  /\ NormalizeLoop(Deg(540)) \in {Deg(180), Deg(-180)}
  /\ NormLon(Deg(540)) \in {Deg(180), Deg(-180)}
  /\ NormalizeLoop(0) = 0 /\ NormLon(0) = 0

\* C13: the normalisation used by isNewYear is idempotent.
C13_NormalizeIdempotent ==
  \A x \in NormInputs : NormLon(NormLon(x)) = NormLon(x)

\* C16: at every instant exactly one of beforeTransition, inTransition and
\* transitionComplete is true, and the status text is not the fallback.
C16_ExactlyOnePhase ==
  /\ Cardinality({i \in 1..3 :
        <<beforeTransition, inTransition, transitionComplete>>[i]}) = 1
  /\ status # "Awaiting New Year"

C16_Witness ==
  /\ currentTime.month = 12 /\ currentTime.day = 15
  /\ beforeTransition /\ ~inTransition /\ ~transitionComplete
  /\ status = "Awaiting Wave Start"

\* The place of a status label in the order of the wave.
StatusRank(label) ==
  CASE label = "Wave Beginning - Pacific Islands" -> 1
    [] label = "Crossing East Asia & Australia" -> 2
    [] label = "Crossing South Asia & Middle East" -> 3
    [] label = "Crossing Europe & Africa" -> 4
    [] label = "Crossing the Atlantic" -> 5
    [] label = "Crossing the Americas" -> 6
    [] label = "Final Stretch - Pacific" -> 7
    [] OTHER -> 0

\* C17: at Dec 31 12:00:00 the label is 'Wave Beginning - Pacific Islands',
\* and while the clock advances through the window the label never returns
\* to an earlier band.
C17_LabelsFollowTheWave ==
  [][/\ AtClock(12, 31, 12, 0, 0) => status = "Wave Beginning - Pacific Islands"
     /\ (inTransition /\ inTransition') => StatusRank(status') >= StatusRank(status)
    ]_vars

\* The clock is strictly later than the epoch second t.
StrictlyLaterThan(t) ==
  \/ ToSecs(currentTime) > t
  \/ ToSecs(currentTime) = t /\ currentTime.millisecond > 0

\* C19: at every instant of the window and for every longitude, isNewYear is
\* true exactly when the clock is strictly later than the predicted solar
\* midnight of that longitude.
C19_MembershipAgreesWithPredictor ==
  inTransition =>
    \A lon \in Lons : isNewYear(lon) <=> StrictlyLaterThan(getSolarMidnightTime(lon))

\* C14: once the fetch attempt has finished, loading is false and exactly one
\* of geoData and error is set; after a failure the error screen with its
\* retry button is displayed, and the retry clears error and sets loading;
\* while the fetch is pending, whatever ticks interleave, loading stays true.
C14_FetchFailureRecoverable ==
  /\ [](fetchState = "pending" => loading /\ Screen = "loading")
  /\ [](fetchState = "done" =>
          /\ ~loading
          /\ (geoData # "null") # (error # "null"))
  /\ [](error # "null" => Screen = "error" /\ ENABLED Retry)
  /\ [][Retry => error' = "null" /\ loading']_vars
  /\ [][(Tick /\ fetchState = "pending") => loading']_vars

C14_Witness ==
  /\ fetchState = "done"
  /\ error = "Failed to fetch map data"
  /\ geoData = "null"
  /\ Screen = "error"
  /\ ticksLeft < UITicks

\* C15: locationLoading is true exactly while a geolocation callback is
\* outstanding, and every request started is answered, so every request ends
\* with locationLoading false; after a failure (an error callback, or no
\* geolocation support) locationError is set, userLocation is still null and
\* the Find My Location button is shown and enabled; starting a new request
\* clears locationError; locationLoading is never true while locationError
\* is set.
C15_LocationFailureRecoverable ==
  /\ [](locationLoading <=> locationPending)
  /\ [](~(locationLoading /\ locationError # "null"))
  /\ [](locationError # "null" /\ ~userLocation.present => LocationButtonEnabled)
  /\ [][(LocationFailure \/ RequestLocationUnsupported) =>
          /\ locationError' # "null"
          /\ ~userLocation'.present
          /\ ~locationLoading'
          /\ LocationButtonEnabled']_vars
  /\ [][RequestLocation => locationError' = "null" /\ locationLoading']_vars
  /\ locationPending ~> ~locationLoading

C15_Witness ==
  /\ locationError = "Unable to get your location"
  /\ ~userLocation.present
  /\ ~locationLoading
  /\ LocationButtonEnabled

\* C18: under every interleaving of clicks, hover events and ticks, a click
\* on the country whose tooltip is shown sets hoveredCountry to null and a
\* click on any other country sets hoveredCountry to that country.
C18_ClickTogglesTooltip ==
  [][\A c \in Countries :
       Click(c) =>
         IF hoveredCountry.present /\ hoveredCountry.name = c
           THEN ~hoveredCountry'.present
           ELSE hoveredCountry'.present /\ hoveredCountry'.name = c
    ]_vars

====
